---- MODULE Spec2Model ----
(***************************************************************************)
(* Model of tools/orchestrator_get_schema_rules.py:                        *)
(*   filter_schema_for_id_workflows  (the schema filter),                  *)
(*   count_tokens_estimate           (the token estimate),                 *)
(*   get_filtered_schema_rules       (the tool: load, filter, persist,     *)
(*                                    statistics, report).                 *)
(*                                                                         *)
(* JSON values are tagged records, a Python dict is the sequence of its    *)
(* entries in insertion order, a Python str is a TLA+ string, and a JSON   *)
(* text is the sequence of its tokens (insignificant white space is not    *)
(* represented; strings are plain ASCII without characters that need an    *)
(* escape).  Python objects live in a heap and variables hold addresses,   *)
(* so that aliasing and in-place mutation are visible.                     *)
(***************************************************************************)
EXTENDS Integers, Sequences, FiniteSets, TLC

VARIABLES
    fs,               \* the file system: parent directory, input file, output file
    pc,               \* position in get_filtered_schema_rules / in the caller
    heap,             \* address -> JSON value held by the object at that address
    schema_dict,      \* address bound to the argument of filter_schema_for_id_workflows
    original_schema,  \* address bound to original_schema (0: unbound)
    filtered_schema,  \* address bound to filtered_schema (0: unbound)
    original_json,    \* compact serialization of the original (token sequence)
    filtered_json,    \* compact serialization of the filtered document
    token_stats,      \* original_tokens, filtered_tokens, reduction, reduction_percent
    size_stats,       \* original_size, filtered_size, size_reduction, size_reduction_percent
    exc,              \* the exception in flight ("none" when there is none)
    result,           \* the value returned by the tool
    snapshot,         \* history: value of the argument object just before the last filter call
    returned,         \* history: values returned by the successive filter calls
    log,              \* history: steps of the tool completed so far, in order
    fs0               \* history: the file system when the tool was invoked

vars == <<fs, pc, heap, schema_dict, original_schema, filtered_schema,
          original_json, filtered_json, token_stats, size_stats, exc, result,
          snapshot, returned, log, fs0>>

---------------------------------------------------------------------------
(* Bounds *)

MaxCalls == 2      \* successive applications of the filter in FilterSpec
MaxSize  == 9      \* longest serialized text in StatsSpec
MaxExtra == 1      \* root entries other than properties / oneOf / description

---------------------------------------------------------------------------
(* JSON values *)

JNull    == [t |-> "null"]
JBool(b) == [t |-> "bool", b |-> b]
JNum(n)  == [t |-> "num", n |-> n]
JStr(s)  == [t |-> "str", s |-> s]
JList(l) == [t |-> "list", l |-> l]
JDict(d) == [t |-> "dict", d |-> d]

Entry(k, v) == [k |-> k, v |-> v]

\* F applied to the value of x, with x evaluated once
Bind(x, F(_)) == CHOOSE y \in { F(r) : r \in {x} } : TRUE

DictHas(d, k) == \E i \in 1..Len(d) : d[i].k = k
DictGet(d, k) == d[CHOOSE i \in 1..Len(d) : d[i].k = k].v
DictDel(d, k) == SelectSeq(d, LAMBDA e : e.k # k)
DictSet(d, k, v) ==
    IF DictHas(d, k)
    THEN [i \in 1..Len(d) |-> IF d[i].k = k THEN Entry(k, v) ELSE d[i]]
    ELSE Append(d, Entry(k, v))

\* Python's  sub in s  for two strings
StrContains(s, sub) ==
    \E i \in 1..(Len(s) - Len(sub) + 1) : SubSeq(s, i, i + Len(sub) - 1) = sub

\* Python's  x in c  for a string x: "yes", "no" or "TypeError"
PyIn(x, c) ==
    CASE c.t = "dict" -> IF DictHas(c.d, x) THEN "yes" ELSE "no"
      [] c.t = "list" -> IF \E i \in 1..Len(c.l) : c.l[i] = JStr(x) THEN "yes" ELSE "no"
      [] c.t = "str"  -> IF StrContains(c.s, x) THEN "yes" ELSE "no"
      [] OTHER        -> "TypeError"

---------------------------------------------------------------------------
(* json.dumps and json.loads, on token sequences *)

P(c)      == [k |-> "p", c |-> c]
LitTok(l) == [k |-> "lit", l |-> l]
NumTok(n) == [k |-> "num", n |-> n]
StrTok(s) == [k |-> "str", s |-> s]

IsP(tk, c) == tk.k = "p" /\ tk.c = c

RECURSIVE dumps(_)
RECURSIVE dumps_items(_, _)
RECURSIVE dumps_members(_, _)
dumps_items(l, i) ==
    IF i > Len(l) THEN <<>>
    ELSE (IF i > 1 THEN <<P(",")>> ELSE <<>>) \o dumps(l[i]) \o dumps_items(l, i + 1)
dumps_members(d, i) ==
    IF i > Len(d) THEN <<>>
    ELSE (IF i > 1 THEN <<P(",")>> ELSE <<>>)
         \o <<StrTok(d[i].k), P(":")>> \o dumps(d[i].v) \o dumps_members(d, i + 1)
dumps(v) ==
    CASE v.t = "null" -> <<LitTok("null")>>
      [] v.t = "bool" -> <<LitTok(IF v.b THEN "true" ELSE "false")>>
      [] v.t = "num"  -> <<NumTok(v.n)>>
      [] v.t = "str"  -> <<StrTok(v.s)>>
      [] v.t = "list" -> <<P("[")>> \o dumps_items(v.l, 1) \o <<P("]")>>
      [] v.t = "dict" -> <<P("{")>> \o dumps_members(v.d, 1) \o <<P("}")>>

ParseFail     == [ok |-> FALSE]
ParseOk(v, n) == [ok |-> TRUE, v |-> v, next |-> n]

RECURSIVE parse_value(_, _)
RECURSIVE parse_array(_, _, _)
RECURSIVE parse_object(_, _, _)
parse_array(toks, i, acc) ==
    IF i > Len(toks) THEN ParseFail
    ELSE IF acc = <<>> /\ IsP(toks[i], "]") THEN ParseOk(JList(acc), i + 1)
    ELSE Bind(parse_value(toks, i), LAMBDA r :
         IF ~r.ok THEN ParseFail
         ELSE IF r.next > Len(toks) THEN ParseFail
         ELSE IF IsP(toks[r.next], ",") THEN parse_array(toks, r.next + 1, Append(acc, r.v))
         ELSE IF IsP(toks[r.next], "]") THEN ParseOk(JList(Append(acc, r.v)), r.next + 1)
         ELSE ParseFail)
parse_object(toks, i, acc) ==
    IF i > Len(toks) THEN ParseFail
    ELSE IF acc = <<>> /\ IsP(toks[i], "}") THEN ParseOk(JDict(acc), i + 1)
    ELSE IF toks[i].k # "str" \/ i + 1 > Len(toks) THEN ParseFail
    ELSE IF ~IsP(toks[i + 1], ":") THEN ParseFail
    ELSE Bind(parse_value(toks, i + 2), LAMBDA r :
         IF ~r.ok THEN ParseFail
         ELSE IF r.next > Len(toks) THEN ParseFail
         ELSE Bind(DictSet(acc, toks[i].s, r.v), LAMBDA acc2 :
              IF IsP(toks[r.next], ",") THEN parse_object(toks, r.next + 1, acc2)
              ELSE IF IsP(toks[r.next], "}") THEN ParseOk(JDict(acc2), r.next + 1)
              ELSE ParseFail))
parse_value(toks, i) ==
    IF i > Len(toks) THEN ParseFail
    ELSE LET tk == toks[i] IN
         CASE tk.k = "lit" ->
                ParseOk(IF tk.l = "null" THEN JNull ELSE JBool(tk.l = "true"), i + 1)
           [] tk.k = "num" -> ParseOk(JNum(tk.n), i + 1)
           [] tk.k = "str" -> ParseOk(JStr(tk.s), i + 1)
           [] IsP(tk, "[") -> parse_array(toks, i + 1, <<>>)
           [] IsP(tk, "{") -> parse_object(toks, i + 1, <<>>)
           [] OTHER        -> ParseFail

\* json.loads / json.load: the value, or JSONDecodeError (also for trailing data)
loads(text) ==
    Bind(text, LAMBDA toks :
    Bind(parse_value(toks, 1), LAMBDA r :
    IF r.ok /\ r.next = Len(toks) + 1 THEN [ok |-> TRUE, v |-> r.v] ELSE [ok |-> FALSE]))

\* len() of a JSON text
RECURSIVE NumLen(_)
NumLen(n) == IF n < 10 THEN 1 ELSE 1 + NumLen(n \div 10)
TokLen(tk) ==
    CASE tk.k = "p"   -> 1
      [] tk.k = "lit" -> Len(tk.l)
      [] tk.k = "num" -> NumLen(tk.n)
      [] tk.k = "str" -> Len(tk.s) + 2
RECURSIVE TextLen(_)
TextLen(text) == IF text = <<>> THEN 0 ELSE TokLen(Head(text)) + TextLen(Tail(text))

---------------------------------------------------------------------------
(* filter_schema_for_id_workflows *)

ID_ONLY_ONEOF ==
    JList(<<JDict(<<Entry("required",
                          JList(<<JStr("id"), JStr("specVersion"), JStr("states")>>))>>)>>)

\* sub-schemas used to build documents
TypeString == JDict(<<Entry("type", JStr("string"))>>)
Required(a) == JDict(<<Entry("required", JList(<<JStr(a), JStr("specVersion"), JStr("states")>>))>>)

ID_ONLY_DESCRIPTION ==
    JStr("Serverless Workflow specification - workflow schema (ID-based workflows only)")

Returns(v) == [ok |-> TRUE, v |-> v, e |-> "none"]
Raises(v)  == [ok |-> FALSE, v |-> v, e |-> "TypeError"]

\* line 21: the copy the edits are applied to
json_copy(v) == Bind(loads(dumps(v)), LAMBDA r : r.v)

\* variant: the key entry is deleted from the root object
remove_key_from_root(f) ==
    IF f.t = "dict" /\ DictHas(f.d, "properties") /\ DictHas(f.d, "key")
    THEN Returns(JDict(DictDel(f.d, "key")))
    ELSE Returns(f)

\* variant: properties is looked up without testing that it is present
remove_key_ungated(f) ==
    IF f.t # "dict" THEN Raises(f)
    ELSE IF ~DictHas(f.d, "properties") THEN [ok |-> FALSE, v |-> f, e |-> "KeyError"]
    ELSE LET p == DictGet(f.d, "properties") IN
         IF p.t = "dict" /\ DictHas(p.d, "key")
         THEN Returns(JDict(DictSet(f.d, "properties", JDict(DictDel(p.d, "key")))))
         ELSE IF PyIn("key", p) = "no" THEN Returns(f) ELSE Raises(f)

\* lines 24-25
remove_key(f) ==
    LET has_p == PyIn("properties", f) IN
    IF has_p = "TypeError" THEN Raises(f)
    ELSE IF has_p = "no" THEN Returns(f)
    ELSE IF f.t # "dict" THEN Raises(f)            \* f["properties"] on a list or str
    ELSE LET p     == DictGet(f.d, "properties")
             has_k == PyIn("key", p) IN
         IF has_k = "TypeError" THEN Raises(f)
         ELSE IF has_k = "no" THEN Returns(f)
         ELSE IF p.t # "dict" THEN Raises(f)       \* del on a list or str
         ELSE Returns(JDict(DictSet(f.d, "properties", JDict(DictDel(p.d, "key")))))

\* variant: the alternatives that require id are selected from the existing oneOf
narrow_oneOf_keep_id(f) ==
    IF f.t = "dict" /\ DictHas(f.d, "oneOf") /\ DictGet(f.d, "oneOf").t = "list"
    THEN Returns(JDict(DictSet(f.d, "oneOf",
             JList(SelectSeq(DictGet(f.d, "oneOf").l, LAMBDA a : a = Required("id"))))))
    ELSE Returns(f)

\* variant: oneOf is assigned without testing that it is present
narrow_oneOf_unconditional(f) ==
    IF f.t # "dict" THEN Raises(f)
    ELSE Returns(JDict(DictSet(f.d, "oneOf", ID_ONLY_ONEOF)))

\* lines 28-38
narrow_oneOf(f) ==
    LET has == PyIn("oneOf", f) IN
    IF has = "TypeError" THEN Raises(f)
    ELSE IF has = "no" THEN Returns(f)
    ELSE IF f.t # "dict" THEN Raises(f)            \* item assignment on a list or str
    ELSE Returns(JDict(DictSet(f.d, "oneOf", ID_ONLY_ONEOF)))

\* variant: the note is appended to the existing description
rewrite_description_append(f) ==
    IF f.t = "dict" /\ DictHas(f.d, "description") /\ DictGet(f.d, "description").t = "str"
    THEN Returns(JDict(DictSet(f.d, "description",
             JStr(DictGet(f.d, "description").s \o " (ID-based workflows only)"))))
    ELSE Returns(f)

\* lines 41-44
rewrite_description(f) ==
    LET has == PyIn("description", f) IN
    IF has = "TypeError" THEN Raises(f)
    ELSE IF has = "no" THEN Returns(f)
    ELSE IF f.t # "dict" THEN Raises(f)
    ELSE Returns(JDict(DictSet(f.d, "description", ID_ONLY_DESCRIPTION)))

\* lines 23-46: the edits, in order, on the object filtered_schema refers to
filter_edits(f) ==
    Bind(remove_key(f), LAMBDA r1 :
    IF ~r1.ok THEN r1
    ELSE Bind(narrow_oneOf(r1.v), LAMBDA r2 :
         IF ~r2.ok THEN r2
         ELSE rewrite_description(r2.v)))

---------------------------------------------------------------------------
(* The heap *)

Addr == 1..(MaxCalls + 1)
Free == [t |-> "free"]

\* the address of a newly created object
new_object(h) == CHOOSE a \in Addr : h[a] = Free /\ \A b \in Addr : h[b] = Free => a <= b

\* variant: filtered_schema is bound to the argument object itself
copy_target_alias(arg, h) == arg

\* line 21: the object filtered_schema is bound to is the one json.loads creates
copy_target(arg, h) == new_object(h)

\* One call filter_schema_for_id_workflows(arg): the copy is created, the
\* edits are applied to it in place, and it is returned unless an edit raises.
CallFilter(arg) ==
    \E target \in {copy_target(arg, heap)} :
    \E out \in {Bind(json_copy(heap[arg]), LAMBDA f : filter_edits(f))} :
        /\ schema_dict' = arg
        /\ snapshot' = heap[arg]
        /\ heap' = [heap EXCEPT ![target] = out.v]
        /\ filtered_schema' = IF out.ok THEN target ELSE filtered_schema
        /\ returned' = IF out.ok THEN Append(returned, target) ELSE returned
        /\ exc' = out.e

---------------------------------------------------------------------------
(* Documents *)


PropMappings ==
    { JDict(<<>>),
      JDict(<<Entry("key", TypeString)>>),
      JDict(<<Entry("id", TypeString)>>),
      JDict(<<Entry("key", TypeString), Entry("id", TypeString)>>),
      JDict(<<Entry("id", TypeString),
              Entry("key", JDict(<<Entry("properties", JDict(<<Entry("key", TypeString)>>))>>)),
              Entry("states", JList(<<JStr("key")>>))>>) }
PropOthers ==
    { JList(<<JStr("key")>>), JList(<<JStr("id")>>), JStr("monkey"), JStr("id"),
      JNum(0), JNull }

OneOfLists ==
    { JList(<<>>), JList(<<Required("key"), Required("id")>>), ID_ONLY_ONEOF }
OneOfOthers == { JStr("id"), JNull }

DescStrings ==
    { JStr(""), JStr("Serverless Workflow specification - workflow schema"),
      ID_ONLY_DESCRIPTION }
DescOthers == { JNum(12) }

ExtraPool ==
    { Entry("definitions",
            JDict(<<Entry("key", TypeString),
                    Entry("properties", JDict(<<Entry("key", TypeString)>>)),
                    Entry("oneOf", JList(<<Required("key")>>)),
                    Entry("description", JStr("d"))>>)),
      Entry("key", TypeString),
      Entry("title", JStr("oneOf")) }

RECURSIVE ExtraSeqs(_)
ExtraSeqs(n) ==
    IF n = 0 THEN { <<>> }
    ELSE ExtraSeqs(n - 1) \cup
         { Append(s, e) : s \in { q \in ExtraSeqs(n - 1) : Len(q) = n - 1 },
                          e \in ExtraPool }
Extras == { s \in ExtraSeqs(MaxExtra) : \A i, j \in 1..Len(s) : s[i].k = s[j].k => i = j }

Opt(k, Vals) == { <<>> } \cup { <<Entry(k, v)>> : v \in Vals }

ObjectDocs(Props, OneOfs, Descs) ==
    { JDict(p \o o \o d \o x) : p \in Opt("properties", Props), o \in Opt("oneOf", OneOfs),
                                d \in Opt("description", Descs), x \in Extras }

\* the documents of the data model: an object whose properties is a mapping,
\* oneOf a sequence and description a string, each optional
SchemaDocs == ObjectDocs(PropMappings, OneOfLists, DescStrings)

\* other JSON values
OtherRoots ==
    { JNull, JBool(TRUE), JNum(7), JStr("x"), JStr("oneOf"), JStr("my description"),
      JStr("properties"), JList(<<>>), JList(<<JStr("id")>>), JList(<<JStr("properties")>>),
      JList(<<JStr("oneOf")>>), JList(<<JStr("description")>>) }
OddDocs ==
    { JDict(<<Entry("properties", p)>> \o o) : p \in PropOthers, o \in Opt("oneOf", OneOfLists) }
    \cup ObjectDocs({ JDict(<<Entry("key", TypeString)>>) }, OneOfOthers, DescOthers)

JsonValues == SchemaDocs \cup OddDocs \cup OtherRoots

IsSchemaDocument(d) ==
    /\ d.t = "dict"
    /\ DictHas(d.d, "properties") => DictGet(d.d, "properties").t = "dict"

HasRootPropKey(d) ==
    /\ d.t = "dict"
    /\ DictHas(d.d, "properties")
    /\ DictGet(d.d, "properties").t = "dict"
    /\ DictHas(DictGet(d.d, "properties").d, "key")

HasRoot(d, k) == d.t = "dict" /\ DictHas(d.d, k)

---------------------------------------------------------------------------
(* FilterSpec: a caller applies the filter to a JSON value, then to its result *)

NoStats  == [set |-> FALSE]
NoFile   == [st |-> "missing"]
NoResult == [text |-> ""]

FilterInit ==
    /\ \E d \in JsonValues : heap = [a \in Addr |-> IF a = 1 THEN d ELSE Free]
    /\ pc = "caller"
    /\ schema_dict = 1
    /\ filtered_schema = 0
    /\ original_schema = 0
    /\ fs = [dir |-> FALSE, input |-> NoFile, output |-> NoFile, ipdb |-> FALSE]
    /\ original_json = <<>> /\ filtered_json = <<>>
    /\ token_stats = NoStats /\ size_stats = NoStats
    /\ exc = "none" /\ result = NoResult
    /\ snapshot = Free /\ returned = <<>> /\ log = <<>>
    /\ fs0 = fs

FirstCall ==
    /\ pc = "caller" /\ snapshot = Free
    /\ CallFilter(1)
    /\ UNCHANGED <<fs, pc, original_schema, original_json, filtered_json,
                   token_stats, size_stats, result, log, fs0>>

AgainCall ==
    /\ pc = "caller" /\ exc = "none"
    /\ Len(returned) \in 1..(MaxCalls - 1)
    /\ CallFilter(returned[Len(returned)])
    /\ UNCHANGED <<fs, pc, original_schema, original_json, filtered_json,
                   token_stats, size_stats, result, log, fs0>>

FilterNext == FirstCall \/ AgainCall

FilterSpec == FilterInit /\ [][FilterNext]_vars

---------------------------------------------------------------------------
(* count_tokens_estimate and the reduction statistics *)

CharsPerToken == 4

count_tokens_estimate(text) == TextLen(text) \div CharsPerToken

\* Python's true division: a rational, or ZeroDivisionError
Rat(n, d) == [err |-> "none", num |-> n, den |-> d]
true_div(a, b) == IF b = 0 THEN [err |-> "ZeroDivisionError"] ELSE Rat(a, b)
times(q, k) == IF q.err # "none" THEN q ELSE Rat(q.num * k, q.den)

\* variant: the division is not guarded
percent_unguarded(reduction, original) == times(true_div(reduction, original), 100)

\* lines 109 and 115:  (reduction / original) * 100 if original > 0 else 0
percent(reduction, original) ==
    IF original > 0 THEN times(true_div(reduction, original), 100) ELSE Rat(0, 1)

---------------------------------------------------------------------------
(* get_filtered_schema_rules *)

\* variant: the statistics are computed before the output file is written
StepOrder_stats_first ==
    <<"check", "load", "filter", "breakpoint", "serialize", "token_stats", "size_stats",
      "mkdir", "open_out", "dump", "render">>

\* the steps of the try block in program order; each names the position
\* from which it is taken
StepOrder ==
    <<"check", "load", "filter", "breakpoint", "mkdir", "open_out", "dump",
      "serialize", "token_stats", "size_stats", "render">>

after(step) ==
    LET i == CHOOSE j \in 1..Len(StepOrder) : StepOrder[j] = step IN
    IF i = Len(StepOrder) THEN "done" ELSE StepOrder[i + 1]

ERR_MISSING == "Error: Input file does not exist: "
ERR_JSON    == "Error: Invalid JSON in input file: "
ERR_OTHER   == "Error: "
REPORT      == "Filtered schema successfully created!"

File(text) == [st |-> "file", text |-> text]

\* documents found in the input file
InputDocs ==
    ObjectDocs({ JDict(<<Entry("key", TypeString), Entry("id", TypeString)>>) },
               { JList(<<>>), JList(<<Required("key"), Required("id")>>) },
               { JStr(""), JStr("Serverless Workflow specification - workflow schema") })
    \cup OtherRoots
    \cup { JDict(<<Entry("properties", p)>>) : p \in PropOthers }

\* texts that are not JSON: an empty file, a truncated object, trailing data,
\* a trailing comma, a missing colon
MalformedTexts ==
    { <<>>,
      <<P("{"), StrTok("properties"), P(":")>>,
      <<P("{"), P("}"), P("{"), P("}")>>,
      <<P("["), NumTok(1), P(","), P("]")>>,
      <<P("{"), StrTok("oneOf"), P("["), P("]"), P("}")>> }

StaleOutput == File(dumps(JDict(<<Entry("stale", JBool(TRUE))>>)))

\* input and output live in the same directory, so an existing file implies it
FileSystems ==
    { [dir |-> d, input |-> NoFile, output |-> NoFile, ipdb |-> i] :
          d \in BOOLEAN, i \in BOOLEAN }
    \cup
    { [dir |-> TRUE, input |-> NoFile, output |-> StaleOutput, ipdb |-> i] :
          i \in BOOLEAN }
    \cup
    { [dir |-> TRUE, input |-> inp, output |-> out, ipdb |-> i] :
          inp \in { [st |-> "unreadable"] }
                  \cup { File(t) : t \in MalformedTexts }
                  \cup { File(dumps(d)) : d \in InputDocs },
          out \in { NoFile, StaleOutput },
          i \in BOOLEAN }

Init ==
    /\ fs \in FileSystems
    /\ fs0 = fs
    /\ pc = "check"
    /\ heap = [a \in Addr |-> Free]
    /\ schema_dict = 0 /\ original_schema = 0 /\ filtered_schema = 0
    /\ original_json = <<>> /\ filtered_json = <<>>
    /\ token_stats = NoStats /\ size_stats = NoStats
    /\ exc = "none" /\ result = NoResult
    /\ snapshot = Free /\ returned = <<>> /\ log = <<>>

Raise(e) == exc' = e /\ pc' = "except"
Step(name) == pc' = after(name) /\ log' = Append(log, name)

\* lines 85-86
CheckInput ==
    /\ pc = "check"
    /\ IF fs.input.st = "missing"
       THEN /\ result' = [text |-> ERR_MISSING, e |-> "none"]
            /\ pc' = "done"
            /\ log' = log
       ELSE /\ Step("check")
            /\ result' = result
    /\ UNCHANGED <<fs, fs0, heap, schema_dict, original_schema, filtered_schema,
                   original_json, filtered_json, token_stats, size_stats, exc,
                   snapshot, returned>>

\* lines 89-90
Load ==
    /\ pc = "load"
    /\ IF fs.input.st = "unreadable"
       THEN Raise("OSError") /\ UNCHANGED <<heap, original_schema, log>>
       ELSE \E r \in {loads(fs.input.text)} :
            IF ~r.ok
            THEN Raise("JSONDecodeError") /\ UNCHANGED <<heap, original_schema, log>>
            ELSE /\ original_schema' = new_object(heap)
                 /\ heap' = [heap EXCEPT ![new_object(heap)] = r.v]
                 /\ Step("load")
                 /\ exc' = exc
    /\ UNCHANGED <<fs, fs0, schema_dict, filtered_schema, original_json, filtered_json,
                   token_stats, size_stats, result, snapshot, returned>>

\* line 93
Filter ==
    /\ pc = "filter"
    /\ CallFilter(original_schema)
    /\ IF exc' = "none" THEN Step("filter") ELSE pc' = "except" /\ log' = log
    /\ UNCHANGED <<fs, fs0, original_schema, original_json, filtered_json,
                   token_stats, size_stats, result>>

\* line 94: import ipdb fails when the package is not installed; otherwise
\* set_trace() hands control to the debugger prompt
Breakpoint ==
    /\ pc = "breakpoint"
    /\ IF fs.ipdb THEN pc' = "debugger" /\ exc' = exc ELSE Raise("ModuleNotFoundError")
    /\ UNCHANGED <<fs, fs0, heap, schema_dict, original_schema, filtered_schema,
                   original_json, filtered_json, token_stats, size_stats, result,
                   snapshot, returned, log>>

\* line 94: the debugger returns when whoever is at the prompt enters a
\* command: continue resumes the function, quit (or end of input) raises BdbQuit
DebuggerCommand ==
    /\ pc = "debugger"
    /\ \E cmd \in {"continue", "quit"} :
          IF cmd = "continue"
          THEN Step("breakpoint") /\ exc' = exc
          ELSE Raise("BdbQuit") /\ log' = log
    /\ UNCHANGED <<fs, fs0, heap, schema_dict, original_schema, filtered_schema,
                   original_json, filtered_json, token_stats, size_stats, result,
                   snapshot, returned>>

\* line 96
Mkdir ==
    /\ pc = "mkdir"
    /\ fs' = [fs EXCEPT !.dir = TRUE]
    /\ Step("mkdir")
    /\ UNCHANGED <<fs0, heap, schema_dict, original_schema, filtered_schema,
                   original_json, filtered_json, token_stats, size_stats, exc, result,
                   snapshot, returned>>

\* line 99: open(output_path, 'w') truncates the file, or fails (OSError)
OpenOutput ==
    /\ pc = "open_out"
    /\ \E ok \in BOOLEAN :
          IF ok
          THEN fs' = [fs EXCEPT !.output = File(<<>>)] /\ Step("open_out") /\ exc' = exc
          ELSE Raise("OSError") /\ UNCHANGED <<fs, log>>
    /\ UNCHANGED <<fs0, heap, schema_dict, original_schema, filtered_schema,
                   original_json, filtered_json, token_stats, size_stats, result,
                   snapshot, returned>>

\* line 100: json.dump writes the text piece by piece; a write can fail (an
\* OSError, or UnicodeEncodeError for a string the file's encoding rejects),
\* and what was written before stays in the file
Dump ==
    /\ pc = "dump"
    /\ \E text \in {dumps(heap[filtered_schema])} :
       \E n \in 0..Len(text) :
          /\ fs' = [fs EXCEPT !.output = File(SubSeq(text, 1, n))]
          /\ IF n = Len(text)
             THEN Step("dump") /\ exc' = exc
             ELSE Raise("OSError") /\ log' = log
    /\ UNCHANGED <<fs0, heap, schema_dict, original_schema, filtered_schema,
                   original_json, filtered_json, token_stats, size_stats, result,
                   snapshot, returned>>

\* lines 103-104
Serialize ==
    /\ pc = "serialize"
    /\ original_json' = dumps(heap[original_schema])
    /\ filtered_json' = dumps(heap[filtered_schema])
    /\ Step("serialize")
    /\ UNCHANGED <<fs, fs0, heap, schema_dict, original_schema, filtered_schema,
                   token_stats, size_stats, exc, result, snapshot, returned>>

\* lines 106-109
TokenStats ==
    /\ pc = "token_stats"
    /\ LET original_tokens   == count_tokens_estimate(original_json)
           filtered_tokens   == count_tokens_estimate(filtered_json)
           reduction         == original_tokens - filtered_tokens
           reduction_percent == percent(reduction, original_tokens)
       IN  IF reduction_percent.err # "none"
           THEN Raise(reduction_percent.err) /\ UNCHANGED <<token_stats, log>>
           ELSE /\ token_stats' = [set |-> TRUE,
                                   original_tokens |-> original_tokens,
                                   filtered_tokens |-> filtered_tokens,
                                   reduction |-> reduction,
                                   reduction_percent |-> reduction_percent]
                /\ Step("token_stats")
                /\ exc' = exc
    /\ UNCHANGED <<fs, fs0, heap, schema_dict, original_schema, filtered_schema,
                   original_json, filtered_json, size_stats, result, snapshot, returned>>

\* lines 112-115
SizeStats ==
    /\ pc = "size_stats"
    /\ LET original_size          == TextLen(original_json)
           filtered_size          == TextLen(filtered_json)
           size_reduction         == original_size - filtered_size
           size_reduction_percent == percent(size_reduction, original_size)
       IN  IF size_reduction_percent.err # "none"
           THEN Raise(size_reduction_percent.err) /\ UNCHANGED <<size_stats, log>>
           ELSE /\ size_stats' = [set |-> TRUE,
                                  original_size |-> original_size,
                                  filtered_size |-> filtered_size,
                                  size_reduction |-> size_reduction,
                                  size_reduction_percent |-> size_reduction_percent]
                /\ Step("size_stats")
                /\ exc' = exc
    /\ UNCHANGED <<fs, fs0, heap, schema_dict, original_schema, filtered_schema,
                   original_json, filtered_json, token_stats, result, snapshot, returned>>

\* lines 117-145
Render ==
    /\ pc = "render"
    /\ result' = [text |-> REPORT, tokens |-> token_stats, size |-> size_stats]
    /\ Step("render")
    /\ UNCHANGED <<fs, fs0, heap, schema_dict, original_schema, filtered_schema,
                   original_json, filtered_json, token_stats, size_stats, exc,
                   snapshot, returned>>

\* lines 147-150
Handler ==
    /\ pc = "except"
    /\ result' = [text |-> IF exc = "JSONDecodeError" THEN ERR_JSON ELSE ERR_OTHER,
                  e |-> exc]
    /\ exc' = "none"
    /\ pc' = "done"
    /\ UNCHANGED <<fs, fs0, heap, schema_dict, original_schema, filtered_schema,
                   original_json, filtered_json, token_stats, size_stats,
                   snapshot, returned, log>>

\* the steps the interpreter takes on its own
ProgramStep ==
    \/ CheckInput \/ Load \/ Filter \/ Breakpoint \/ Mkdir \/ OpenOutput \/ Dump
    \/ Serialize \/ TokenStats \/ SizeStats \/ Render \/ Handler

Next == ProgramStep \/ DebuggerCommand

Spec == Init /\ [][Next]_vars

\* The interpreter keeps running; nothing obliges anyone to answer the
\* debugger prompt.
FairSpec == Spec /\ WF_vars(ProgramStep)

---------------------------------------------------------------------------
(* StatsSpec: the statistics on two texts of any sizes *)

TextOfLen(n) == [i \in 1..n |-> NumTok(0)]

StatsInit ==
    /\ \E m, n \in 0..MaxSize :
          original_json = TextOfLen(m) /\ filtered_json = TextOfLen(n)
    /\ pc = "token_stats"
    /\ fs = [dir |-> FALSE, input |-> NoFile, output |-> NoFile, ipdb |-> FALSE]
    /\ fs0 = fs
    /\ heap = [a \in Addr |-> Free]
    /\ schema_dict = 0 /\ original_schema = 0 /\ filtered_schema = 0
    /\ token_stats = NoStats /\ size_stats = NoStats
    /\ exc = "none" /\ result = NoResult
    /\ snapshot = Free /\ returned = <<>> /\ log = <<>>

StatsNext == TokenStats \/ SizeStats

StatsSpec == StatsInit /\ [][StatsNext]_vars

---------------------------------------------------------------------------
(* Properties *)

called      == snapshot # Free
last_result == heap[filtered_schema]
InLog(name) == \E i \in 1..Len(log) : log[i] = name
IsPrefix(a, b) == Len(a) <= Len(b) /\ \A i \in 1..Len(a) : a[i] = b[i]
DictKeys(d) == [i \in 1..Len(d) |-> d[i].k]
RatIs(q, n, d) == q.err = "none" /\ q.num * d = n * q.den

\* C1: the filter is idempotent: once a call has returned, a further call on
\* its result returns too, and returns a document deeply equal to that result.
C1_Idempotent ==
    /\ Len(returned) >= 1 => exc = "none"
    /\ \A i \in 2..Len(returned) : heap[returned[i]] = heap[returned[i - 1]]

C1_Witness ==
    /\ Len(returned) >= 2
    /\ HasRootPropKey(heap[1]) /\ HasRoot(heap[1], "oneOf") /\ HasRoot(heap[1], "description")
    /\ heap[returned[1]] # heap[1]

\* C2: the filter never mutates its argument: after every call the object
\* passed in is deeply equal to what it was before the call, and the original
\* serialization the tool computes after filtering is that of the loaded document.
C2_ArgumentUnchanged ==
    /\ called => heap[schema_dict] = snapshot
    /\ InLog("serialize") => /\ original_json = dumps(loads(fs0.input.text).v)
                             /\ heap[original_schema] = loads(fs0.input.text).v

C2_Witness ==
    /\ InLog("serialize")
    /\ HasRootPropKey(snapshot) /\ HasRoot(snapshot, "oneOf")
    /\ last_result # heap[original_schema]

\* C3 as stated: whatever the input document, the result has oneOf equal to
\* the single ID-based alternative.
C3_OneOfAlwaysNarrowed ==
    called /\ exc = "none" =>
        /\ HasRoot(last_result, "oneOf")
        /\ DictGet(last_result.d, "oneOf") = ID_ONLY_ONEOF

\* C3 amended: for every schema document with a root oneOf the result has oneOf
\* equal to the single ID-based alternative, whatever the original oneOf was;
\* for a document without a root oneOf the result has none.
C3_OneOfNarrowedWhenPresent ==
    /\ called /\ IsSchemaDocument(snapshot) /\ HasRoot(snapshot, "oneOf") =>
          /\ exc = "none"
          /\ HasRoot(last_result, "oneOf")
          /\ DictGet(last_result.d, "oneOf") = ID_ONLY_ONEOF
    /\ called /\ exc = "none" /\ ~HasRoot(snapshot, "oneOf") =>
          ~HasRoot(last_result, "oneOf")

C3_Witness ==
    /\ called /\ exc = "none"
    /\ HasRoot(snapshot, "oneOf")
    /\ DictGet(snapshot.d, "oneOf") = JList(<<>>)
    /\ DictGet(last_result.d, "oneOf") = ID_ONLY_ONEOF

\* C4: when the root properties mapping of the input contains key, the call
\* returns a result whose root properties has no key; no returned document has
\* properties.key at the root.
C4_KeyRemoved ==
    /\ called /\ HasRootPropKey(snapshot) =>
          /\ exc = "none"
          /\ HasRoot(last_result, "properties")
          /\ ~HasRootPropKey(last_result)
    /\ \A i \in 1..Len(returned) : ~HasRootPropKey(heap[returned[i]])

C4_Witness ==
    /\ called /\ exc = "none"
    /\ HasRootPropKey(snapshot)
    /\ DictHas(DictGet(last_result.d, "properties").d, "id")

\* C5: the result differs from the input at most in root properties.key, root
\* oneOf and root description: same root keys in the same order, every other
\* root entry and every other entry of properties deeply equal, nothing added;
\* an input with none of the three is returned identical.
Frame(d, r) ==
    IF d.t # "dict" THEN r = d
    ELSE /\ r.t = "dict"
         /\ DictKeys(r.d) = DictKeys(d.d)
         /\ \A i \in 1..Len(d.d) :
               LET k == d.d[i].k
                   p == d.d[i].v
                   q == r.d[i].v
               IN  /\ k \notin {"properties", "oneOf", "description"} => q = p
                   /\ k = "properties" =>
                         IF p.t # "dict" THEN q = p
                         ELSE /\ q.t = "dict"
                              /\ \A j \in 1..Len(p.d) :
                                    p.d[j].k # "key" =>
                                       /\ DictHas(q.d, p.d[j].k)
                                       /\ DictGet(q.d, p.d[j].k) = p.d[j].v
                              /\ \A j \in 1..Len(q.d) : DictHas(p.d, q.d[j].k)
         /\ (~HasRootPropKey(d) /\ ~DictHas(d.d, "oneOf") /\ ~DictHas(d.d, "description"))
               => r = d

C5_RestUnchanged == called /\ exc = "none" => Frame(snapshot, last_result)

C5_Witness ==
    /\ called /\ exc = "none"
    /\ HasRootPropKey(snapshot)
    /\ HasRoot(snapshot, "definitions")
    /\ HasRootPropKey(DictGet(last_result.d, "definitions"))
    /\ last_result # snapshot

\* C6 as stated: no call of the filter raises, whatever JSON value it is given.
C6_NeverRaises == called => exc = "none"

\* C6 amended: no call raises when the root is an object whose properties
\* value, if present, is a mapping.
C6_NeverRaisesOnSchemaDocument ==
    called /\ IsSchemaDocument(snapshot) => exc = "none"

C6_Witness ==
    /\ called /\ exc = "none"
    /\ IsSchemaDocument(snapshot)
    /\ ~HasRoot(snapshot, "properties") /\ ~HasRoot(snapshot, "oneOf")
    /\ ~HasRoot(snapshot, "description")

\* C7: the reduction is the signed difference original - filtered, the
\* percentage is reduction / original * 100, and it is 0, with no division
\* error, when the original quantity (length, or floor(length / 4)) is 0.
C7_StatsGuarded ==
    /\ exc # "ZeroDivisionError" /\ pc # "except"
    /\ token_stats.set =>
          LET o == token_stats.original_tokens
              f == token_stats.filtered_tokens
          IN  /\ 4 * o <= TextLen(original_json) /\ TextLen(original_json) < 4 * (o + 1)
              /\ 4 * f <= TextLen(filtered_json) /\ TextLen(filtered_json) < 4 * (f + 1)
              /\ token_stats.reduction = o - f
              /\ IF o = 0 THEN RatIs(token_stats.reduction_percent, 0, 1)
                          ELSE RatIs(token_stats.reduction_percent, (o - f) * 100, o)
    /\ size_stats.set =>
          LET o == size_stats.original_size
              f == size_stats.filtered_size
          IN  /\ o = TextLen(original_json) /\ f = TextLen(filtered_json)
              /\ size_stats.size_reduction = o - f
              /\ IF o = 0 THEN RatIs(size_stats.size_reduction_percent, 0, 1)
                          ELSE RatIs(size_stats.size_reduction_percent, (o - f) * 100, o)

C7_Witness ==
    /\ size_stats.set /\ token_stats.set
    /\ size_stats.original_size = 0
    /\ size_stats.size_reduction < 0
    /\ token_stats.reduction < 0

\* C8: every execution of the tool ends by returning a string, the report or
\* one of the error strings.
C8_AlwaysReturnsString ==
    <>(pc = "done" /\ result.text \in {REPORT, ERR_MISSING, ERR_JSON, ERR_OTHER})

\* C9 as stated: the output file is never written before the statistics have
\* been computed.
C9_StatsBeforeWrite ==
    (InLog("open_out") \/ fs.output # fs0.output) => token_stats.set /\ size_stats.set

\* C9 amended: the steps occur in the order load, filter, persist, serialize,
\* statistics, render: the statistics are only computed once the output file
\* holds the whole filtered document.
C9_WriteBeforeStats ==
    /\ IsPrefix(log, <<"check", "load", "filter", "breakpoint", "mkdir", "open_out", "dump",
                       "serialize", "token_stats", "size_stats", "render">>)
    /\ (InLog("serialize") \/ token_stats.set \/ size_stats.set) =>
          /\ InLog("dump")
          /\ fs.output = File(dumps(last_result))

C9_Witness ==
    /\ pc = "done" /\ result.text = REPORT
    /\ token_stats.set /\ size_stats.set
    /\ fs.output = File(dumps(last_result))

\* C10: the output file and its directory are only touched once the input has
\* been loaded and filtered, an execution ending with the input-missing or the
\* invalid-JSON error string leaves them as they were, and what an execution
\* has written is the filter result of the loaded document.
C10_OutputIsFilterResult ==
    /\ (fs.output # fs0.output \/ fs.dir # fs0.dir) =>
          /\ InLog("load") /\ InLog("filter")
          /\ heap[original_schema] = loads(fs0.input.text).v
    /\ (pc = "done" /\ result.text \in {ERR_MISSING, ERR_JSON}) => fs = fs0
    /\ (pc = "done" /\ fs.output # fs0.output) =>
          fs.output = File(dumps(filter_edits(json_copy(loads(fs0.input.text).v)).v))

====
